---- MODULE Spec2Model ----
(***************************************************************************)
(* The generic record access layer (app/db/managers/base.py, ModelManager) *)
(* over one SQLAlchemy AsyncSession and the relational store behind it.    *)
(*                                                                         *)
(* The session is modelled by what the manager can observe of it: the      *)
(* pending list (session.new), the identity map, the set marked deleted,   *)
(* the rows the open transaction sees (txn), the committed rows (db) and   *)
(* the autoflush flag.  A manager call is one action; inside it every      *)
(* session call is logged, and a fault may be injected into one of them.   *)
(*                                                                         *)
(* Around it: the binding of a manager class to its entity type at class   *)
(* definition (SpecBinding), and the requests and commands that each open  *)
(* a session of their own and pass require_user (SpecApp); two sessions    *)
(* running get_or_create against the same store (SpecRace); no_autoflush   *)
(* scopes opened by tasks that share one session (SpecScopes); the user    *)
(* manager's e-mail dispatch (SpecMail) and the admin login (SpecAdmin).   *)
(***************************************************************************)
EXTENDS Integers, Sequences, FiniteSets, TLC

\* ---------------------------------------------------------------- bounds
MaxObjs == 3      \* in-memory instances alive in one session
MaxPk == 2        \* rows the autoincrement sequence may hand out
MaxFailAt == 2    \* index of the session call a fault may be injected into
MaxList == 2      \* length of the lists handed to save_all / delete_all
MaxSteps == 3     \* manager calls and session changes in one run
MaxBases == 2     \* entries of a manager class's __orig_bases__
MaxScopes == 3    \* no_autoflush scopes open on one session at once
MaxMail == 2      \* messages queued, and messages handed to the mailer
MaxTokens == 3    \* access tokens written by admin logins

\* ---------------------------------------------------------------- values
NoVal == "-"                  \* None / key not given
Emails == {"a", "b"}
Names == {"A", "B"}

\* **kwargs over the entity's two data columns; NoVal = key absent
Kwargs == [email : Emails \cup {NoVal}, name : Names \cup {NoVal}]
NoKw == [email |-> NoVal, name |-> NoVal]
\* every column given: what an instance is built from (the columns are NOT NULL)
FullKwargs == [email : Emails, name : Names]
\* the keys given; a primary key, when given, is the extra key "id", and
\* defaults may carry a key named like create's own parameter, "commit"
Keys(kw) == {f \in DOMAIN kw : f \in {"id", "commit"} \/ kw[f] # NoVal}
WithCommit(kw, c) ==
    [f \in DOMAIN kw \cup {"commit"} |-> IF f = "commit" THEN c ELSE kw[f]]
WithPk(kw, pk) == [id |-> pk, email |-> kw.email, name |-> kw.name]

ErrNone == "none"
ErrTransient == "StatementError: no value has been set for this column"
ErrStatement == "StatementError"
ErrTimeout == "TimeoutError"
ErrMultiple == "MultipleResultsFound"
ErrInvalidRequest == "InvalidRequestError"
ErrType == "TypeError"
FaultKinds == {ErrTransient, ErrStatement, ErrTimeout}

VARIABLES heap, key, new, identity, deleted, txn, db, autoflush, nextPk, last, steps

\* the application around the manager: the manager class being defined and
\* what its first use gave; the requests and commands in flight and the
\* sessions open for them
VARIABLES cls, used, reqs, open, nextSess

\* concurrency: the get_or_create calls of two sessions on one store; the
\* no_autoflush scopes open on the one session, the setting before the first
\* of them was entered, and whether they were left innermost first so far
VARIABLES tasks, scopes, orig, nested

\* the user manager's mail: the request's background tasks, what the mailer
\* was given, and the last send_email call; the admin backend: the access
\* tokens in the store, the admin's request.session, and the last login
VARIABLES queue, outbox, mailLast, tokens, adminSession, loginLast

sessVars == <<heap, key, new, identity, deleted, txn, db, autoflush, nextPk>>
mgrVars == <<heap, key, new, identity, deleted, txn, db, autoflush, nextPk, last, steps>>
bindVars == <<cls, used>>
reqVars == <<reqs, open, nextSess>>
raceVars == <<tasks>>
scopeVars == <<scopes, orig, nested>>
mailVars == <<queue, outbox, mailLast>>
adminVars == <<tokens, adminSession, loginLast>>
auxVars == <<raceVars, scopeVars, mailVars, adminVars>>
vars == <<heap, key, new, identity, deleted, txn, db, autoflush, nextPk, last, steps,
          cls, used, reqs, open, nextSess, tasks, scopes, orig, nested,
          queue, outbox, mailLast, tokens, adminSession, loginLast>>

\* ------------------------------------------------- the running call's state
\* The state a manager call works on: the session and store, the log of the
\* session calls made so far, the pending exception, the value being returned.
Begin(at, kind) ==
    [heap |-> heap, key |-> key, new |-> new, identity |-> identity,
     deleted |-> deleted,
     txn |-> txn, db |-> db, autoflush |-> autoflush, nextPk |-> nextPk,
     calls |-> <<>>, err |-> ErrNone, res |-> 0, resAll |-> {},
     created |-> FALSE,
     failAt |-> at, failKind |-> kind]

\* The state the caller's next call starts from.
Then(r) ==
    [r EXCEPT !.calls = <<>>, !.err = ErrNone, !.res = 0, !.resAll = {},
              !.created = FALSE, !.failAt = 0, !.failKind = ErrNone]

Ok(s) == s.err = ErrNone
Raise(s, e) == [s EXCEPT !.err = e]

\* One call on the session: logged, and failing if the fault is planted here.
Called(s, name) ==
    LET s1 == [s EXCEPT !.calls = Append(@, name)]
    IN IF Len(s1.calls) = s.failAt THEN Raise(s1, s.failKind) ELSE s1

RangeOf(seq) == {seq[i] : i \in 1..Len(seq)}
\* the primary key attribute of an instance, and the key the identity map
\* holds it under (the primary key of its row as last loaded or flushed)
PkOf(s, o) == s.heap[o].id
KeyOf(s, o) == s.key[o]
Matches(row, kw) == \A f \in Keys(kw) : row[f] = kw[f]

\* ---------------------------------------------------------- the session
\* flush: INSERT the pending instances in the order they were added (the
\* sequence hands out the primary keys of those that have none), UPDATE the
\* rows of the persistent ones from their attributes (the primary key
\* included), DELETE the rows of those marked deleted.
RECURSIVE FlushNew(_)
FlushNew(s) ==
    IF s.new = <<>> THEN s
    ELSE LET o == Head(s.new)
             given == s.heap[o].id # 0
             inst == IF given THEN s.heap[o] ELSE [s.heap[o] EXCEPT !.id = s.nextPk]
         IN FlushNew([s EXCEPT !.heap[o] = inst,
                               !.key[o] = inst.id,
                               !.txn = @ \cup {inst},
                               !.identity = @ \cup {o},
                               !.nextPk = IF given THEN @ ELSE @ + 1,
                               !.new = Tail(@)])

\* mutant: a flush inserts what is pending and nothing else
Flush_inserts_only(s) == FlushNew(s)

Flush(s) ==
    LET a == FlushNew(s)
        kept == {r \in a.txn : \A o \in a.identity : a.key[o] # r.id}
        live == a.identity \ a.deleted
    IN [a EXCEPT !.txn = kept \cup {a.heap[o] : o \in live},
                 !.key = [o \in 1..Len(a.key) |->
                             IF o \in live THEN a.heap[o].id ELSE a.key[o]],
                 !.identity = live,
                 !.deleted = {}]

Autoflush(s) == IF s.autoflush THEN Flush(s) ELSE s

\* The instance a fetched row is returned as: the one the identity map already
\* holds for its primary key (attributes untouched), else a newly loaded one.
Loaded(s, row) ==
    IF \E o \in s.identity : KeyOf(s, o) = row.id
    THEN [s EXCEPT !.res = CHOOSE o \in s.identity : KeyOf(s, o) = row.id]
    ELSE [s EXCEPT !.heap = Append(@, row),
                   !.key = Append(@, row.id),
                   !.identity = @ \cup {Len(s.heap) + 1},
                   !.res = Len(s.heap) + 1]

\* mutant: an add replaces what was pending
SessionAdd_replaces(s, o) ==
    IF ~Ok(s) THEN s
    ELSE LET c == Called(s, "add")
         IN IF ~Ok(c) THEN c
            ELSE IF o \in c.identity THEN [c EXCEPT !.deleted = @ \ {o}]
            ELSE [c EXCEPT !.new = <<o>>]

SessionAdd(s, o) ==
    IF ~Ok(s) THEN s
    ELSE LET c == Called(s, "add")
         IN IF ~Ok(c) THEN c
            ELSE IF o \in c.identity THEN [c EXCEPT !.deleted = @ \ {o}]
            ELSE IF o \in RangeOf(c.new) THEN c
            ELSE [c EXCEPT !.new = Append(@, o)]

SessionCommit(s) ==
    IF ~Ok(s) THEN s
    ELSE LET c == Called(s, "commit")
         IN IF ~Ok(c) THEN c
            ELSE LET f == Flush(c) IN [f EXCEPT !.db = f.txn]

\* mutant: the instance is not marked for deletion
SessionDelete_unmarked(s, o) ==
    IF ~Ok(s) THEN s
    ELSE LET c == Called(s, "delete")
         IN IF ~Ok(c) THEN c
            ELSE IF o \notin c.identity THEN Raise(c, ErrInvalidRequest)
            ELSE c

SessionDelete(s, o) ==
    IF ~Ok(s) THEN s
    ELSE LET c == Called(s, "delete")
         IN IF ~Ok(c) THEN c
            ELSE IF o \notin c.identity THEN Raise(c, ErrInvalidRequest)
            ELSE [c EXCEPT !.deleted = @ \cup {o}]

\* mutant: the identity map is not consulted, the row is loaded anew
SessionGet_reloads(s, pk) ==
    IF ~Ok(s) THEN s
    ELSE LET c == Called(s, "get")
             rows == {r \in c.txn : r.id = pk}
         IN IF ~Ok(c) THEN c
            ELSE IF rows = {} THEN [c EXCEPT !.res = 0]
            ELSE LET row == CHOOSE r \in rows : TRUE
                 IN [c EXCEPT !.heap = Append(@, row),
                              !.key = Append(@, row.id),
                              !.identity = @ \cup {Len(c.heap) + 1},
                              !.res = Len(c.heap) + 1]

SessionGet(s, pk) ==
    IF ~Ok(s) THEN s
    ELSE LET c == Called(s, "get")
         IN IF ~Ok(c) THEN c
            ELSE IF \E o \in c.identity : KeyOf(c, o) = pk
            THEN [c EXCEPT !.res = CHOOSE o \in c.identity : KeyOf(c, o) = pk]
            ELSE LET f == Autoflush(c)
                     rows == {r \in f.txn : r.id = pk}
                 IN IF rows = {} THEN [f EXCEPT !.res = 0]
                    ELSE Loaded(f, CHOOSE r \in rows : TRUE)

\* ---------------------------------------------------------- the manager
\* mutant: the first of several rows is returned (first() for one_or_none())
OneOrNone_first(s, rows) ==
    IF rows = {} THEN [s EXCEPT !.res = 0]
    ELSE Loaded(s, CHOOSE r \in rows : \A x \in rows : r.id <= x.id)

\* result.scalars().one_or_none()
OneOrNone(s, rows) ==
    IF Cardinality(rows) > 1 THEN Raise(s, ErrMultiple)
    ELSE IF rows = {} THEN [s EXCEPT !.res = 0]
    ELSE Loaded(s, CHOOSE r \in rows : TRUE)

\* session.execute(select(model).filter_by(**kwargs)): the matching rows of
\* the open transaction, after the flush autoflush asks for.
SessionExecute(s) ==
    IF ~Ok(s) THEN s
    ELSE LET c == Called(s, "execute")
         IN IF ~Ok(c) THEN c ELSE Autoflush(c)

get_by(s, kw) ==
    LET e == SessionExecute(s)
    IN IF ~Ok(e) THEN e ELSE OneOrNone(e, {r \in e.txn : Matches(r, kw)})

\* mutant: a primary key that is not found is an error (one() for get())
get_or_raise(s, pk) ==
    LET g == SessionGet(s, pk)
    IN IF Ok(g) /\ g.res = 0 THEN Raise(g, "NoResultFound") ELSE g

get(s, pk) == SessionGet(s, pk)

RECURSIVE LoadAll(_, _)
LoadAll(s, rows) ==
    IF rows = {} THEN s
    ELSE LET r == CHOOSE x \in rows : \A y \in rows : x.id <= y.id
             l == Loaded(s, r)
         IN LoadAll([l EXCEPT !.resAll = @ \cup {l.res}, !.res = 0], rows \ {r})

all(s) ==
    LET e == SessionExecute(s)
    IN IF ~Ok(e) THEN e ELSE LoadAll(e, e.txn)

\* mutant: the commit flag is ignored, nothing is committed
save_never_commits(s, o, commit) ==
    LET a == SessionAdd(s, o)
    IN IF Ok(a) THEN [a EXCEPT !.res = o] ELSE a

\* mutant: the commit flag is ignored, every save commits
save_always_commits(s, o, commit) ==
    LET c == SessionCommit(SessionAdd(s, o))
    IN IF Ok(c) THEN [c EXCEPT !.res = o] ELSE c

save(s, o, commit) ==
    LET a == SessionAdd(s, o)
        c == IF commit THEN SessionCommit(a) ELSE a
    IN IF Ok(c) THEN [c EXCEPT !.res = o] ELSE c

\* self.model(**kwargs)
Construct(s, kw) ==
    [s EXCEPT !.heap = Append(@, [id |-> IF "id" \in DOMAIN kw THEN kw.id ELSE 0,
                                  email |-> kw.email, name |-> kw.name]),
              !.key = Append(@, 0)]

create(s, commit, kw) ==
    IF ~Ok(s) THEN s
    ELSE save(Construct(s, kw), Len(s.heap) + 1, commit)

no_autoflush_enter(s) == [s EXCEPT !.autoflush = FALSE]

\* mutant: the setting is restored on a normal exit only
no_autoflush_exit_on_return(s, autoflush_) ==
    IF Ok(s) THEN [s EXCEPT !.autoflush = autoflush_] ELSE s

\* mutant: leaving a scope turns autoflush on
no_autoflush_exit_enables(s, autoflush_) == [s EXCEPT !.autoflush = TRUE]

no_autoflush_exit(s, autoflush_) == [s EXCEPT !.autoflush = autoflush_]

\* mutants of the except clause: nothing is swallowed; every StatementError
\* is; every exception is
Swallowed_never(e) == FALSE
Swallowed_any_statement(e) == e \in {ErrTransient, ErrStatement}
Swallowed_any(e) == e # ErrNone

\* except SQLAlchemyStatementError as e: swallowed only with this message
Swallowed(e) == e = ErrTransient

\* the lookup inside the scoped context, whose finally clause runs on every
\* exit, before the except clause sees the error
maybe_get_by(s, kw) ==
    LET autoflush_ == s.autoflush
        g == no_autoflush_exit(get_by(no_autoflush_enter(s), kw), autoflush_)
    IN IF Swallowed(g.err) THEN [g EXCEPT !.err = ErrNone, !.res = 0] ELSE g

\* mutant: the filter fields win over defaults that repeat them
CreateMerged_filter_wins(s, defaults, commit, kw) ==
    LET c == create(s, commit,
                    [f \in (DOMAIN defaults \cup DOMAIN kw) \ {"commit"} |->
                        IF f \in Keys(kw) THEN kw[f] ELSE defaults[f]])
    IN IF Ok(c) THEN [c EXCEPT !.created = TRUE] ELSE c

\* create(**defaults, **kwargs, commit=commit): a key given twice is a TypeError
\* raised at the call, before create runs.
CreateMerged(s, defaults, commit, kw) ==
    IF Keys(defaults) \cap (Keys(kw) \cup {"commit"}) # {} THEN Raise(s, ErrType)
    ELSE LET c == create(s, commit,
                         [f \in DOMAIN defaults \cup DOMAIN kw |->
                             IF f \in Keys(kw) THEN kw[f] ELSE defaults[f]])
         IN IF Ok(c) THEN [c EXCEPT !.created = TRUE] ELSE c

\* setattr(instance, key, value) for each key given, the primary key included
SetAttrs(inst, kw) ==
    [f \in {"id", "email", "name"} |-> IF f \in Keys(kw) THEN kw[f] ELSE inst[f]]

\* mutant: a match is overwritten with the defaults (update_or_create's branch)
get_or_create_overwrites(s, defaults, commit, kw) ==
    LET g == maybe_get_by(s, kw)
    IN IF ~Ok(g) THEN g
       ELSE IF g.res = 0 THEN CreateMerged(g, defaults, commit, kw)
       ELSE [g EXCEPT !.heap[g.res] = SetAttrs(@, defaults), !.created = FALSE]

get_or_create(s, defaults, commit, kw) ==
    LET g == maybe_get_by(s, kw)
    IN IF ~Ok(g) THEN g
       ELSE IF g.res = 0 THEN CreateMerged(g, defaults, commit, kw)
       ELSE [g EXCEPT !.created = FALSE]

\* mutant: the fields are not assigned
update_without_setattr(s, o, commit, kw) == save(s, o, commit)

update(s, o, commit, kw) ==
    save([s EXCEPT !.heap[o] = SetAttrs(@, kw)], o, commit)

\* mutant: a match is saved (and committed if asked) after the assignment
update_or_create_saves(s, defaults, commit, kw) ==
    LET g == maybe_get_by(s, kw)
    IN IF ~Ok(g) THEN g
       ELSE IF g.res = 0 THEN CreateMerged(g, defaults, commit, kw)
       ELSE LET u == save([g EXCEPT !.heap[g.res] = SetAttrs(@, defaults)],
                          g.res, commit)
            IN [u EXCEPT !.created = FALSE]

update_or_create(s, defaults, commit, kw) ==
    LET g == maybe_get_by(s, kw)
    IN IF ~Ok(g) THEN g
       ELSE IF g.res = 0 THEN CreateMerged(g, defaults, commit, kw)
       ELSE [g EXCEPT !.heap[g.res] = SetAttrs(@, defaults), !.created = FALSE]

\* mutant: one add per instance instead of one add_all
RECURSIVE AddEach(_, _)
AddEach(s, instances) ==
    IF instances = <<>> THEN s
    ELSE AddEach(SessionAdd(s, Head(instances)), Tail(instances))

save_all_adds_each(s, instances, commit) ==
    LET a == AddEach(s, instances)
    IN IF commit THEN SessionCommit(a) ELSE a

save_all(s, instances, commit) ==
    LET c == Called(s, "add_all")
        a == IF ~Ok(c) THEN c
             ELSE [c EXCEPT !.deleted = @ \ RangeOf(instances),
                            !.new = @ \o SelectSeq(instances,
                                LAMBDA o : o \notin c.identity /\ o \notin RangeOf(c.new))]
    IN IF commit THEN SessionCommit(a) ELSE a

delete(s, o, commit) ==
    LET d == SessionDelete(s, o)
    IN IF commit THEN SessionCommit(d) ELSE d

RECURSIVE DeleteEach(_, _)
DeleteEach(s, instances) ==
    IF instances = <<>> THEN s
    ELSE DeleteEach(SessionDelete(s, Head(instances)), Tail(instances))

\* mutant: the commit is issued inside the loop, once per instance
RECURSIVE DeleteCommitEach(_, _, _)
DeleteCommitEach(s, instances, commit) ==
    IF instances = <<>> THEN s
    ELSE LET d == SessionDelete(s, Head(instances))
         IN DeleteCommitEach(IF commit THEN SessionCommit(d) ELSE d,
                             Tail(instances), commit)

delete_all_commits_each(s, instances, commit) ==
    DeleteCommitEach(s, instances, commit)

delete_all(s, instances, commit) ==
    LET d == DeleteEach(s, instances)
    IN IF commit THEN SessionCommit(d) ELSE d

commit(s) == SessionCommit(s)

\* ---------------------------------------------------------------- inputs
NoFaults == {<<0, ErrNone>>}
Faults == NoFaults \cup ((1..MaxFailAt) \X FaultKinds)

\* Instances a caller can still hold and hand in: transient, pending or
\* persistent ones (not those whose row a flush has already deleted).
Usable ==
    {o \in 1..Len(heap) : heap[o].id = 0 \/ o \in identity \/ o \in RangeOf(new)}

\* Primary keys a caller gives explicitly: beyond what the sequence hands out
\* in one run, and held by no instance and no row.
GivenPks == {MaxPk + MaxObjs}
FreePks ==
    {pk \in GivenPks : /\ \A o \in 1..Len(heap) : heap[o].id # pk /\ key[o] # pk
                       /\ \A r \in txn \cup db : r.id # pk}

Lists ==
    {<<>>} \cup {<<a>> : a \in Usable}
           \cup {<<p[1], p[2]>> : p \in {q \in Usable \X Usable : q[1] # q[2]}}

InstanceLists == {l \in Lists : Len(l) <= MaxList}

\* defaults that, with the filter fields, give every column a value; those
\* that repeat a filter key repeat all of them, with the same values.
Defaults(kw) ==
    {d \in Kwargs : /\ Keys(d) \cup Keys(kw) = {"email", "name"}
                    /\ \/ Keys(d) \cap Keys(kw) = {}
                       \/ \A f \in Keys(kw) : d[f] = kw[f]}

\* Primary keys given as a default to update_or_create: where a row matches
\* the filter and the defaults repeat none of its keys.
MatchPks(d, kw) ==
    IF Keys(d) \cap Keys(kw) = {} /\ \E r \in txn : Matches(r, kw)
    THEN FreePks ELSE {}

Bounded(r) ==
    /\ Len(r.heap) <= MaxObjs
    /\ (r.nextPk - 1) + Cardinality({o \in 1..Len(r.heap) : r.heap[o].id = 0}) <= MaxPk

\* An instance the call built but that neither the session nor the caller
\* holds when the call raises (create's add failed) is garbage.
Collected(r) ==
    IF /\ ~Ok(r)
       /\ Len(r.heap) = Len(heap) + 1
       /\ Len(r.heap) \notin RangeOf(r.new) \cup r.identity
    THEN [r EXCEPT !.heap = SubSeq(@, 1, Len(heap)),
                   !.key = SubSeq(@, 1, Len(heap))]
    ELSE r

\* The call returns (or raises): its effects and what the caller observes.
Done(r0, op) ==
    LET r == Collected(r0) IN
    /\ steps < MaxSteps
    /\ steps' = steps + 1
    /\ Bounded(r)
    /\ r.failAt = 0 \/ r.failAt <= Len(r.calls)
    /\ heap' = r.heap
    /\ key' = r.key
    /\ new' = r.new
    /\ identity' = r.identity
    /\ deleted' = r.deleted
    /\ txn' = r.txn
    /\ db' = r.db
    /\ autoflush' = r.autoflush
    /\ nextPk' = r.nextPk
    /\ last' = [op |-> op, fault |-> <<r.failAt, r.failKind>>,
                res |-> IF Ok(r) THEN r.res ELSE 0,
                created |-> Ok(r) /\ r.created,
                err |-> r.err, calls |-> r.calls]
    /\ UNCHANGED <<bindVars, reqVars, auxVars>>

NoCall ==
    [op |-> "init", fault |-> <<0, ErrNone>>, res |-> 0, created |-> FALSE, err |-> ErrNone, calls |-> <<>>]

\* ------------------------------------------------------ manager binding
\* What getattr(cls, "model", None) may give: a Base subclass, nothing, a type
\* that is no Base subclass, a value that is no type.
BaseModels == {"User", "AccessToken"}
ModelVals == BaseModels \cup {"absent", "int", "not_a_type"}
\* get_origin(base) and get_args(base)[0] of an entry of cls.__orig_bases__
Origins == {"ModelManager", "manager_subclass", "Generic", "none"}
TypeArgs == BaseModels \cup {"int", "TypeVar", "none"}
OrigBases ==
    UNION {[1..n -> [origin : Origins, arg : TypeArgs]] : n \in 1..MaxBases}

\* the for loop: the argument of the first manager base parameterized with a
\* Base subclass, "absent" when the loop ends without an assignment
RECURSIVE FromGeneric(_, _)
FromGeneric(orig_bases, i) ==
    IF i > Len(orig_bases) THEN "absent"
    ELSE IF /\ orig_bases[i].origin \in {"ModelManager", "manager_subclass"}
            /\ orig_bases[i].arg \in BaseModels
         THEN orig_bases[i].arg
         ELSE FromGeneric(orig_bases, i + 1)

\* ModelManager.__init_subclass__: the class's model after it, and whether the
\* class statement raised
init_subclass(model, orig_bases) ==
    IF model \in BaseModels THEN [raised |-> FALSE, model |-> model]
    ELSE LET arg == FromGeneric(orig_bases, 1)
         IN [raised |-> FALSE, model |-> IF arg # "absent" THEN arg ELSE model]

\* select(self.model), the first thing every query of the manager does
select(model) ==
    IF model = "absent" THEN "AttributeError"
    ELSE IF model \in BaseModels THEN "ok"
    ELSE "ArgumentError"

NoClass == [defined |-> FALSE, declared |-> "absent", orig_bases |-> <<>>,
            model |-> "absent"]

\* --------------------------------------------------- requests and commands
Routes == {"/", "/api/v1/protected", "/api/v1/users"}
Commands == {"users list"}
Requests == {"r1", "r2"}

\* the bearer token a request carries and the user it belongs to
Tokens == {"none", "unknown", "expired", "valid"}
NoCred == [token |-> "none", is_active |-> FALSE, is_verified |-> FALSE,
           is_superuser |-> FALSE]
Creds ==
    {[NoCred EXCEPT !.token = t] : t \in Tokens \ {"valid"}} \cup
    [token : {"valid"}, is_active : BOOLEAN, is_verified : BOOLEAN,
     is_superuser : BOOLEAN]

AUTH_REQUIRE_USER_VERIFIED == TRUE

NeedsSession(work) == work # "/"
RequiresUser(work) == work \in {"/api/v1/protected", "/api/v1/users"}

\* mutant: the superuser requirement is not passed on to the dependency
current_user_any_role(cred, active, verified, superuser) ==
    IF cred.token # "valid" THEN 401
    ELSE IF active /\ ~cred.is_active THEN 401
    ELSE IF verified /\ ~cred.is_verified THEN 403
    ELSE 200

\* mutant: the dependency is optional, a missing user is passed on
current_user_optional(cred, active, verified, superuser) == 200

\* fastapi_users.current_user(active, verified, superuser): the status the
\* dependency answers with, 200 when it yields the user
current_user(cred, active, verified, superuser) ==
    IF cred.token # "valid" THEN 401
    ELSE IF active /\ ~cred.is_active THEN 401
    ELSE IF \/ verified /\ ~cred.is_verified
            \/ superuser /\ ~cred.is_superuser THEN 403
    ELSE 200

\* values handed around as keyword arguments
None == [type |-> "None"]
UserValue(cred) ==
    [type |-> "User", is_active |-> cred.is_active,
     is_verified |-> cred.is_verified, is_superuser |-> cred.is_superuser]
SessionValue(n) == [type |-> "AsyncSession", id |-> n]
NoKwargs == [n \in {} |-> None]

\* the decorated views: def api_protected(user: User),
\* async def get_users(session: AsyncSession = Depends(get_async_session))
Handler(work) ==
    IF work = "/api/v1/protected"
    THEN [is_async |-> FALSE, params |-> <<[name |-> "user", annotation |-> "User"]>>]
    ELSE IF work = "/api/v1/users"
    THEN [is_async |-> TRUE,
          params |-> <<[name |-> "session", annotation |-> "AsyncSession"]>>]
    ELSE [is_async |-> TRUE, params |-> <<>>]

\* what the framework calls the wrapper with: a value for every parameter of
\* wrapper.__signature__, i.e. the handler's parameters not annotated User
\* plus the keyword-only __auth_user
Solved(func_inner, cred, sess) ==
    LET kept == {i \in 1..Len(func_inner.params) :
                    func_inner.params[i].annotation # "User"}
        names == {func_inner.params[i].name : i \in kept}
    IN [n \in names \cup {"__auth_user"} |->
          IF n = "__auth_user" THEN UserValue(cred) ELSE SessionValue(sess)]

\* mutant: the injected dependency is not consumed
wrapper_keeps_auth_user(func_inner, kwargs) ==
    LET users == {i \in 1..Len(func_inner.params) :
                     func_inner.params[i].annotation = "User"}
        bound == IF users = {} THEN kwargs
                 ELSE LET first == CHOOSE i \in users : \A j \in users : i <= j
                          name == func_inner.params[first].name
                      IN [n \in DOMAIN kwargs \cup {name} |->
                            IF n = name THEN kwargs["__auth_user"] ELSE kwargs[n]]
    IN [kwargs |-> bound, awaited |-> func_inner.is_async,
        error |-> IF \E i \in 1..Len(func_inner.params) :
                         func_inner.params[i].name \notin DOMAIN bound
                  THEN "TypeError" ELSE "none"]

\* require_user's wrapper: pops __auth_user, binds it to the first parameter
\* annotated User, and calls the handler (awaiting it if it is a coroutine
\* function) with what is left
wrapper(func_inner, kwargs) ==
    LET user_obj == IF "__auth_user" \in DOMAIN kwargs
                    THEN kwargs["__auth_user"] ELSE None
        rest == [n \in DOMAIN kwargs \ {"__auth_user"} |-> kwargs[n]]
        users == {i \in 1..Len(func_inner.params) :
                     func_inner.params[i].annotation = "User"}
        bound == IF users = {} THEN rest
                 ELSE LET first == CHOOSE i \in users : \A j \in users : i <= j
                          name == func_inner.params[first].name
                      IN [n \in DOMAIN rest \cup {name} |->
                            IF n = name THEN user_obj ELSE rest[n]]
    IN [kwargs |-> bound, awaited |-> func_inner.is_async,
        error |-> IF \E i \in 1..Len(func_inner.params) :
                         func_inner.params[i].name \notin DOMAIN bound
                  THEN "TypeError" ELSE "none"]

Idle == [phase |-> "idle", work |-> "/", cred |-> NoCred, session |-> 0,
         status |-> 0, invoked |-> FALSE, passed |-> NoKwargs,
         body |-> {}, at |-> 0]

\* ---------------------------------------------------------------- actions
\* ---------------------------------------------------------- concurrency
RaceTasks == {"t1", "t2"}
NoTask == [pc |-> "idle", kw |-> NoKw, commit |-> FALSE, seen |-> 0,
           found |-> FALSE, created |-> FALSE]
ScopeTasks == {"t1", "t2", "t3"}

\* ------------------------------------------------ the user manager's mail
\* An Email, by its subject and the base_url entry of its template_context.
Subjects == {"Welcome", "Verify Your Email Address"}
NoRequest == <<>>
\* str(request.base_url), as the text before a run of trailing pieces
BaseUrls == {<<"http://testserver", "/">>, <<"http://testserver", "/", "app", "/">>}
BASE_URL == <<"http://localhost:8000">>
Email(subject) == [subject |-> subject, base_url |-> <<>>]

\* str.rstrip("/")
RECURSIVE Rstrip(_)
Rstrip(url) ==
    IF url # <<>> /\ url[Len(url)] = "/" THEN Rstrip(SubSeq(url, 1, Len(url) - 1))
    ELSE url

\* what a send_email call works on
Mailing(message) ==
    [queue |-> queue, outbox |-> outbox, message |-> message, awaited |-> FALSE]

\* mutant: the function is always run inline
in_background_inline(s, background_tasks, message) ==
    [s EXCEPT !.outbox = Append(@, message), !.awaited = TRUE]

\* in_background(get_fast_mail().send_message, message): send_message is a
\* coroutine function, so what the inline call returns is awaited
in_background(s, background_tasks, message) ==
    IF background_tasks THEN [s EXCEPT !.queue = Append(@, message)]
    ELSE [s EXCEPT !.outbox = Append(@, message), !.awaited = TRUE]

send_email(s, send_emails, background_tasks, request) ==
    IF ~send_emails THEN s
    ELSE LET m == [s.message EXCEPT
                      !.base_url = IF request # NoRequest THEN Rstrip(request)
                                   ELSE BASE_URL]
         IN in_background([s EXCEPT !.message = m], background_tasks, m)

NoMail == [send_emails |-> FALSE, background_tasks |-> FALSE,
           message |-> Email("Welcome"), awaited |-> FALSE]

\* ------------------------------------------------------- the admin login
NoToken == 0
Logins ==
    [user : Emails, known : BOOLEAN, is_active : BOOLEAN, is_superuser : BOOLEAN,
     is_verified : BOOLEAN]
Admin == [tokens |-> tokens, session |-> adminSession, result |-> "-"]

\* db_strategy.write_token(user): a new access token row of the user
write_token(s, user) ==
    LET token == Cardinality(s.tokens) + 1
    IN [s EXCEPT !.tokens = @ \cup {[token |-> token, user |-> user]},
                 !.result = token]

\* mutant: the token is written before the user is checked
login_writes_first(s, cred, require_verified) ==
    LET w == write_token(s, cred.user)
    IN IF ~cred.known THEN [w EXCEPT !.result = "False"]
       ELSE IF ~(cred.is_active /\ cred.is_superuser) THEN [w EXCEPT !.result = "403"]
       ELSE IF require_verified /\ ~cred.is_verified THEN [w EXCEPT !.result = "400"]
       ELSE [w EXCEPT !.session = w.result, !.result = "True"]

\* AdminAuth.login; cred.known says that user_manager.authenticate found the
\* user and verified the password
login(s, cred, require_verified) ==
    IF ~cred.known THEN [s EXCEPT !.result = "False"]
    ELSE IF ~(cred.is_active /\ cred.is_superuser) THEN [s EXCEPT !.result = "403"]
    ELSE IF require_verified /\ ~cred.is_verified THEN [s EXCEPT !.result = "400"]
    ELSE LET w == write_token(s, cred.user)
         IN [w EXCEPT !.session = w.result, !.result = "True"]

NoLogin == [cred |-> [user |-> "a", known |-> FALSE, is_active |-> FALSE,
                      is_superuser |-> FALSE, is_verified |-> FALSE],
            result |-> "-"]

Init ==
    /\ queue = <<>>
    /\ outbox = <<>>
    /\ mailLast = NoMail
    /\ tokens = {}
    /\ adminSession = NoToken
    /\ loginLast = NoLogin
    /\ tasks = [p \in RaceTasks |-> NoTask]
    /\ scopes = <<>>
    /\ nested = TRUE
    /\ cls = NoClass
    /\ used = "-"
    /\ reqs = [r \in Requests |-> Idle]
    /\ open = {}
    /\ nextSess = 1
    /\ heap = <<>>
    /\ key = <<>>
    /\ new = <<>>
    /\ identity = {}
    /\ deleted = {}
    /\ txn = {}
    /\ db = {}
    /\ autoflush \in BOOLEAN
    /\ nextPk = 1
    /\ last = NoCall
    /\ steps = 0
    /\ orig = autoflush

Create(F) ==
    \E kw \in FullKwargs, c \in BOOLEAN, f \in F :
        Done(create(Begin(f[1], f[2]), c, kw), "create")

Get(F) ==
    \E pk \in (0..MaxPk) \cup GivenPks, f \in F :
        Done(get(Begin(f[1], f[2]), pk), "get")

GetBy(F) ==
    \E kw \in Kwargs, f \in F :
        Done(get_by(Begin(f[1], f[2]), kw), "get_by")

All(F) ==
    \E f \in F :
        Done(all(Begin(f[1], f[2])), "all")

GetOrCreate(F) ==
    \E kw \in Kwargs : \E d \in Defaults(kw), c \in BOOLEAN, f \in F :
        Done(get_or_create(Begin(f[1], f[2]), d, c, kw),
             "get_or_create")

UpdateOrCreate(F) ==
    \E kw \in Kwargs : \E d \in Defaults(kw), c \in BOOLEAN :
        \/ \E f \in F :
              Done(update_or_create(Begin(f[1], f[2]), d, c, kw),
                   "update_or_create")
        \/ \E pk \in MatchPks(d, kw) :
              Done(update_or_create(Begin(0, ErrNone), WithPk(d, pk), c, kw),
                   "update_or_create")

Update(F) ==
    \E o \in Usable, c \in BOOLEAN :
        \/ \E kw \in Kwargs, f \in F :
              Done(update(Begin(f[1], f[2]), o, c, kw), "update")
        \/ \E pk \in FreePks :
              Done(update(Begin(0, ErrNone), o, c, WithPk(NoKw, pk)), "update")

Save(F) ==
    \E o \in Usable, c \in BOOLEAN, f \in F :
        Done(save(Begin(f[1], f[2]), o, c), "save")

SaveAll(F) ==
    \E l \in InstanceLists, c \in BOOLEAN, f \in F :
        Done(save_all(Begin(f[1], f[2]), l, c), "save_all")

Delete(F) ==
    \E o \in Usable, c \in BOOLEAN, f \in F :
        Done(delete(Begin(f[1], f[2]), o, c), "delete")

DeleteAll(F) ==
    \E l \in InstanceLists, c \in BOOLEAN, f \in F :
        Done(delete_all(Begin(f[1], f[2]), l, c), "delete_all")

Commit(F) ==
    \E f \in F :
        Done(commit(Begin(f[1], f[2])), "commit")

\* The unit of work ends (async with async_session_factory() as session) and
\* the next one begins: what was not committed is rolled back, the instances
\* of the old session are dropped, autoflush is the factory's.
Reopen ==
    /\ steps < MaxSteps
    /\ steps' = steps + 1
    /\ heap' = <<>>
    /\ key' = <<>>
    /\ new' = <<>>
    /\ identity' = {}
    /\ deleted' = {}
    /\ txn' = db
    /\ autoflush' = FALSE
    /\ last' = [NoCall EXCEPT !.op = "reopen"]
    /\ UNCHANGED <<db, nextPk, bindVars, reqVars, auxVars>>

\* Every storage call succeeds.
Next ==
    \/ Create(NoFaults)
    \/ Get(NoFaults)
    \/ GetBy(NoFaults)
    \/ All(NoFaults)
    \/ GetOrCreate(NoFaults)
    \/ UpdateOrCreate(NoFaults)
    \/ Update(NoFaults)
    \/ Save(NoFaults)
    \/ SaveAll(NoFaults)
    \/ Delete(NoFaults)
    \/ DeleteAll(NoFaults)
    \/ Commit(NoFaults)
    \/ Reopen

Spec == Init /\ [][Next]_vars

\* One session call of a manager call may fail.
NextFaults ==
    \/ Create(Faults)
    \/ Get(Faults)
    \/ GetBy(Faults)
    \/ All(Faults)
    \/ GetOrCreate(Faults)
    \/ UpdateOrCreate(Faults)
    \/ Update(Faults)
    \/ Save(Faults)
    \/ SaveAll(Faults)
    \/ Delete(Faults)
    \/ DeleteAll(Faults)
    \/ Commit(Faults)
    \/ Reopen

SpecFaults == Init /\ [][NextFaults]_vars

\* ------------------------------------------------------ manager binding
\* class X(<bases>): model = <model>    -- the class statement
DefineManager ==
    \E model \in ModelVals, orig_bases \in OrigBases :
        LET c == init_subclass(model, orig_bases)
        IN /\ cls = NoClass
           /\ cls' = [defined |-> ~c.raised, declared |-> model,
                      orig_bases |-> orig_bases, model |-> c.model]
           /\ used' = "-"
           /\ UNCHANGED <<mgrVars, reqVars, auxVars>>

\* the first query through an instance of the class
UseManager ==
    /\ cls.defined
    /\ used' = select(cls.model)
    /\ UNCHANGED <<cls, mgrVars, reqVars, auxVars>>

NextBinding == DefineManager \/ UseManager

SpecBinding == Init /\ [][NextBinding]_vars

\* --------------------------------------------------- requests and commands
\* A request or command starts: get_async_session / the command's async with
\* opens a session of its own.
Receive(r) ==
    /\ reqs[r].phase = "idle"
    /\ \E work \in Routes \cup Commands :
        \E cred \in IF RequiresUser(work) THEN Creds ELSE {NoCred} :
          /\ reqs' = [reqs EXCEPT ![r] =
                         [phase |-> IF RequiresUser(work) THEN "deps" ELSE "ready",
                          work |-> work, cred |-> cred,
                          session |-> IF NeedsSession(work) THEN nextSess ELSE 0,
                          status |-> 0, invoked |-> FALSE, passed |-> NoKwargs,
                          body |-> {}, at |-> 0]]
          /\ open' = IF NeedsSession(work) THEN open \cup {nextSess} ELSE open
          /\ nextSess' = IF NeedsSession(work) THEN nextSess + 1 ELSE nextSess
    /\ UNCHANGED <<mgrVars, bindVars, auxVars>>

\* require_user's dependency is resolved before the handler is called
Authenticate(r) ==
    /\ reqs[r].phase = "deps"
    /\ LET code == current_user(reqs[r].cred, TRUE, AUTH_REQUIRE_USER_VERIFIED,
                                reqs[r].work = "/api/v1/users")
       IN reqs' = [reqs EXCEPT ![r].phase = IF code = 200 THEN "ready" ELSE "exiting",
                               ![r].status = IF code = 200 THEN 0 ELSE code]
    /\ UNCHANGED <<open, nextSess, mgrVars, bindVars, auxVars>>

\* The session a request or command gets from async_session_factory: nothing
\* tracked, a transaction that sees what is committed.
FactorySession ==
    [Begin(0, ErrNone) EXCEPT !.heap = <<>>, !.key = <<>>, !.new = <<>>,
                              !.identity = {}, !.deleted = {}, !.txn = db,
                              !.autoflush = FALSE]

\* mutant: the listing is read through the session that holds the pending adds
get_users_shared_session ==
    db \cup {heap[o] : o \in RangeOf(new)}

\* get_users / list_users: every User the request's own session selects
get_users ==
    LET r == all(FactorySession)
    IN {r.heap[o] : o \in r.resAll}

\* the handler (the command's body) runs, and returns or raises
Invoke(r) ==
    /\ reqs[r].phase = "ready"
    /\ \E ok \in BOOLEAN :
          LET work == reqs[r].work
              call == wrapper(Handler(work),
                              Solved(Handler(work), reqs[r].cred, reqs[r].session))
              lists == work \in {"/api/v1/users", "users list"}
          IN reqs' = [reqs EXCEPT
                 ![r].phase = "exiting",
                 ![r].invoked = TRUE,
                 ![r].passed = IF RequiresUser(work) THEN call.kwargs ELSE NoKwargs,
                 ![r].body = IF ok /\ lists THEN get_users ELSE {},
                 ![r].at = IF ok /\ lists THEN Cardinality(db) ELSE 0,
                 ![r].status = IF ok THEN 200 ELSE 500]
    /\ UNCHANGED <<open, nextSess, mgrVars, bindVars, auxVars>>

\* another unit of work adds a user, committing it or not
AddUser ==
    \E c \in BOOLEAN :
        /\ Done(create(Begin(0, ErrNone), c,
                       [email |-> IF Len(heap) = 0 THEN "a" ELSE "b", name |-> "A"]),
                "create")

\* mutant: the session is closed only when the work succeeded
Release_on_success(r) ==
    /\ reqs[r].phase = "exiting"
    /\ reqs' = [reqs EXCEPT ![r].phase = "done"]
    /\ open' = IF reqs[r].status = 200 THEN open \ {reqs[r].session} ELSE open
    /\ UNCHANGED <<nextSess, mgrVars, bindVars, auxVars>>

\* the async with block is left, on return or on an exception: session.close()
Release(r) ==
    /\ reqs[r].phase = "exiting"
    /\ reqs' = [reqs EXCEPT ![r].phase = "done"]
    /\ open' = open \ {reqs[r].session}
    /\ UNCHANGED <<nextSess, mgrVars, bindVars, auxVars>>

NextApp ==
    \/ \E r \in Requests : Receive(r) \/ Authenticate(r) \/ Invoke(r) \/ Release(r)
    \/ AddUser

SpecApp == Init /\ [][NextApp]_vars

\* --------------------------------------- two sessions, one get_or_create each
\* get_or_create awaits twice: the lookup, and create's commit.  Each task has
\* a session of its own from the factory; what it has not committed no other
\* session sees.

\* instance = await self._maybe_get_by(**kwargs), and the return on a match
RaceLookup(p) ==
    /\ tasks[p].pc = "idle"
    /\ \E kw \in FullKwargs, c \in BOOLEAN :
          LET g == maybe_get_by(FactorySession, kw)
          IN tasks' = [tasks EXCEPT ![p] =
                 [pc |-> IF g.res = 0 THEN "looked" ELSE "done",
                  kw |-> kw, commit |-> c,
                  seen |-> Cardinality({row \in db : Matches(row, kw)}),
                  found |-> g.res # 0, created |-> FALSE]]
    /\ UNCHANGED <<mgrVars, bindVars, reqVars, scopeVars, mailVars, adminVars>>

\* mutant: the insert is skipped when a matching row has appeared meanwhile
RaceCreate_if_absent(p) ==
    /\ tasks[p].pc = "looked"
    /\ LET r == CreateMerged(FactorySession, NoKw, tasks[p].commit, tasks[p].kw)
           absent == \A row \in db : ~Matches(row, tasks[p].kw)
       IN /\ db' = IF absent THEN r.db ELSE db
          /\ nextPk' = IF absent THEN r.nextPk ELSE nextPk
          /\ tasks' = [tasks EXCEPT ![p].pc = "done", ![p].created = r.created]
    /\ UNCHANGED <<heap, key, new, identity, deleted, txn, autoflush, last, steps,
                   bindVars, reqVars, scopeVars, mailVars, adminVars>>

\* return await self.create(**defaults, **kwargs, commit=commit), True
RaceCreate(p) ==
    /\ tasks[p].pc = "looked"
    /\ LET r == CreateMerged(FactorySession, NoKw, tasks[p].commit, tasks[p].kw)
       IN /\ db' = r.db
          /\ nextPk' = r.nextPk
          /\ tasks' = [tasks EXCEPT ![p].pc = "done", ![p].created = r.created]
    /\ UNCHANGED <<heap, key, new, identity, deleted, txn, autoflush, last, steps,
                   bindVars, reqVars, scopeVars, mailVars, adminVars>>

NextRace == \E p \in RaceTasks : RaceLookup(p) \/ RaceCreate(p)

SpecRace == Init /\ [][NextRace]_vars

\* ------------------------------------- no_autoflush scopes on a shared session
\* A task leaves its own scopes innermost first (they are with-blocks); tasks
\* that share the session enter and leave theirs in any order.
Innermost(t) ==
    CHOOSE i \in 1..Len(scopes) :
        /\ scopes[i].task = t
        /\ \A j \in 1..Len(scopes) : scopes[j].task = t => j <= i

\* autoflush = self.session.autoflush; self.session.autoflush = False
EnterScope(t) ==
    /\ Len(scopes) < MaxScopes
    /\ scopes' = Append(scopes, [task |-> t, autoflush |-> autoflush])
    /\ autoflush' = no_autoflush_enter(Begin(0, ErrNone)).autoflush
    /\ orig' = IF scopes = <<>> THEN autoflush ELSE orig
    /\ nested' = IF scopes = <<>> THEN TRUE ELSE nested
    /\ UNCHANGED <<heap, key, new, identity, deleted, txn, db, nextPk, last, steps,
                   bindVars, reqVars, raceVars, mailVars, adminVars>>

\* finally: self.session.autoflush = autoflush
ExitScope(t) ==
    /\ \E i \in 1..Len(scopes) : scopes[i].task = t
    /\ LET i == Innermost(t)
       IN /\ autoflush' = no_autoflush_exit(Begin(0, ErrNone), scopes[i].autoflush).autoflush
          /\ scopes' = [j \in 1..(Len(scopes) - 1) |->
                           IF j < i THEN scopes[j] ELSE scopes[j + 1]]
          /\ nested' = (nested /\ i = Len(scopes))
    /\ UNCHANGED <<heap, key, new, identity, deleted, txn, db, nextPk, last, steps,
                   orig, bindVars, reqVars, raceVars, mailVars, adminVars>>

NextScopes == \E t \in ScopeTasks : EnterScope(t) \/ ExitScope(t)

SpecScopes == Init /\ [][NextScopes]_vars

\* ------------------------------------------------------------------ mail
SendEmail ==
    \E send_emails \in BOOLEAN, background_tasks \in BOOLEAN,
       subject \in Subjects, request \in BaseUrls \cup {NoRequest} :
        LET r == send_email(Mailing(Email(subject)), send_emails, background_tasks,
                            request)
        IN /\ Len(r.queue) <= MaxMail /\ Len(r.outbox) <= MaxMail
           /\ queue' = r.queue
           /\ outbox' = r.outbox
           /\ mailLast' = [send_emails |-> send_emails,
                           background_tasks |-> background_tasks,
                           message |-> r.message, awaited |-> r.awaited]
           /\ UNCHANGED <<mgrVars, bindVars, reqVars, raceVars, scopeVars, adminVars>>

\* after the response the request's background tasks run, in order
RunBackground ==
    /\ queue # <<>> /\ Len(outbox) < MaxMail
    /\ outbox' = Append(outbox, Head(queue))
    /\ queue' = Tail(queue)
    /\ UNCHANGED <<mailLast, mgrVars, bindVars, reqVars, raceVars, scopeVars, adminVars>>

NextMail == SendEmail \/ RunBackground

SpecMail == Init /\ [][NextMail]_vars

\* ----------------------------------------------------------------- admin
Login ==
    \E cred \in Logins :
        LET r == login(Admin, cred, AUTH_REQUIRE_USER_VERIFIED)
        IN /\ Cardinality(r.tokens) <= MaxTokens
           /\ tokens' = r.tokens
           /\ adminSession' = r.session
           /\ loginLast' = [cred |-> cred, result |-> r.result]
           /\ UNCHANGED <<mgrVars, bindVars, reqVars, raceVars, scopeVars, mailVars>>

NextAdmin == Login

SpecAdmin == Init /\ [][NextAdmin]_vars

\* ================================================================ claims
Fresh == Begin(0, ErrNone)
Fields(inst) == [email |-> inst.email, name |-> inst.name]
Count(seq, x) == Cardinality({i \in 1..Len(seq) : seq[i] = x})
MatchingRows(rows, kw) == {row \in rows : Matches(row, kw)}

C2_GetByOutcomes ==
    \A kw \in Kwargs :
        LET r == get_by(Fresh, kw)
            rows == MatchingRows(r.txn, kw)
        IN /\ r.err = ErrMultiple <=> Cardinality(rows) > 1
           /\ (Ok(r) /\ r.res = 0) <=> rows = {}
           /\ (Ok(r) /\ r.res # 0) <=> Cardinality(rows) = 1
           /\ (Ok(r) /\ r.res # 0) =>
                 /\ r.res \in r.identity
                 /\ \E row \in rows : row.id = KeyOf(r, r.res)

\* get_by has just raised on an ambiguous filter.
C2_Witness ==
    /\ last.op = "get_by" /\ last.err = ErrMultiple
    /\ Cardinality(txn) > 1

\* C3 as stated: starting with no matching row, two consecutive get_or_create
\* calls with the same filter (commit flag default or True) return
\* (instance, True) and then (the same instance, False), and one matching
\* record exists afterwards.
C3_GetOrCreateIdempotent ==
    \A kw \in Kwargs : \A d \in {x \in Defaults(kw) : Keys(x) \cap Keys(kw) = {}},
                          c \in BOOLEAN :
        LET r1 == get_or_create(Fresh, d, c, kw)
            r2 == get_or_create(Then(r1), d, c, kw)
            records == {o \in RangeOf(r2.new) \cup r2.identity :
                            Matches(r2.heap[o], kw)}
        IN MatchingRows(txn, kw) = {} =>
              /\ Ok(r1) /\ r1.created
              /\ Ok(r2) /\ ~r2.created
              /\ r2.res = r1.res
              /\ Cardinality(records) = 1

\* C4: when get_or_create finds a match it returns it untouched: no attribute
\* of any instance changes, nothing is added to the session, nothing is
\* flushed or committed; and a second get_or_create, after a committing first
\* one whose row is the only match, leaves the name the first one stored.
C4_MatchLeftUnchanged ==
    \A kw \in Kwargs, d \in Kwargs, c \in BOOLEAN :
        LET r == get_or_create(Fresh, d, c, kw)
            r1 == get_or_create(Fresh, d, TRUE, kw)
        IN /\ (Ok(r) /\ r.res # 0 /\ ~r.created) =>
                 /\ \A o \in 1..Len(heap) : r.heap[o] = heap[o]
                 /\ r.res > Len(heap) => r.heap[r.res] \in txn
                 /\ r.new = new /\ r.deleted = deleted
                 /\ r.txn = txn /\ r.db = db
                 /\ r.calls = <<"execute">>
           /\ (Ok(r1) /\ r1.created /\ Cardinality(MatchingRows(r1.txn, kw)) = 1) =>
                 \A d2 \in Kwargs :
                     LET r2 == get_or_create(Then(r1), d2, c, kw)
                     IN /\ Ok(r2) /\ ~r2.created /\ r2.res = r1.res
                        /\ r2.heap[r2.res] = r1.heap[r1.res]
                        /\ r2.db = r1.db

\* get_or_create has just returned an instance it found.
C4_Witness ==
    /\ last.op = "get_or_create" /\ last.err = ErrNone
    /\ last.res # 0 /\ ~last.created
    /\ last.calls = <<"execute">>

Merged(d, kw) ==
    [f \in {"email", "name"} |-> IF kw[f] # NoVal THEN kw[f] ELSE d[f]]

\* C5: when the lookup of get_or_create / update_or_create fails with the
\* "no value has been set for this column" StatementError, that error is not
\* raised: the call goes on as for no match, builds the instance from the
\* filter fields plus defaults, adds it (and commits iff asked) and returns
\* (instance, True).  (Defaults repeating a filter key end the call with the
\* TypeError of the create call, as they do for any no-match.)
C5_TransientLookupCreates ==
    \A kw \in Kwargs, d \in Kwargs, c \in BOOLEAN :
        \A r \in {get_or_create(Begin(1, ErrTransient), d, c, kw),
                  update_or_create(Begin(1, ErrTransient), d, c, kw)} :
            /\ r.err # ErrTransient
            /\ r.autoflush = autoflush
            /\ IF Keys(d) \cap Keys(kw) = {}
               THEN /\ Ok(r) /\ r.created
                    /\ r.res = Len(heap) + 1
                    /\ Fields(r.heap[r.res]) = Merged(d, kw)
                    /\ r.res \in RangeOf(r.new) \cup r.identity
                    /\ r.calls = IF c THEN <<"execute", "add", "commit">>
                                      ELSE <<"execute", "add">>
               ELSE r.err = ErrType /\ r.calls = <<"execute">>

\* get_or_create has just created an instance after its lookup failed that way.
C5_Witness ==
    /\ last.op \in {"get_or_create", "update_or_create"}
    /\ last.fault = <<1, ErrTransient>>
    /\ last.err = ErrNone /\ last.created
    /\ last.res = Len(heap)

\* C6: but for that one reinterpretation, a failure of a session call reaches
\* the caller as the same error, and the failing call is the last session call
\* of the manager call: it is not retried and nothing (no create after a
\* failed lookup) is attempted after it.
Reinterpreted(l) ==
    /\ l.op \in {"get_or_create", "update_or_create"}
    /\ l.fault = <<1, ErrTransient>>

C6_FailuresPropagate ==
    (last.fault[1] # 0 /\ ~Reinterpreted(last)) =>
        /\ last.err = last.fault[2]
        /\ Len(last.calls) = last.fault[1]

\* The lookup of a get_or_create has just failed with another StatementError.
C6_Witness ==
    /\ last.op = "get_or_create"
    /\ last.fault = <<1, ErrStatement>>
    /\ last.err = ErrStatement
    /\ last.calls = <<"execute">>

\* C7: whenever more than one row matches the filter, get_by raises
\* MultipleResultsFound, and so do get_or_create and update_or_create, which
\* then neither create an instance nor touch an existing one.
C7_AmbiguousSurfaced ==
    \A kw \in Kwargs :
        /\ LET r == get_by(Fresh, kw)
           IN Cardinality(MatchingRows(r.txn, kw)) > 1 => r.err = ErrMultiple
        /\ Cardinality(MatchingRows(txn, kw)) > 1 =>
              \A d \in Kwargs, c \in BOOLEAN :
                  \A r \in {get_or_create(Fresh, d, c, kw),
                            update_or_create(Fresh, d, c, kw)} :
                      /\ r.err = ErrMultiple
                      /\ r.heap = heap /\ r.new = new
                      /\ r.identity = identity /\ r.deleted = deleted
                      /\ r.txn = txn /\ r.db = db
                      /\ r.calls = <<"execute">>

\* get_or_create / update_or_create has just raised on an ambiguous filter.
C7_Witness ==
    /\ last.op \in {"get_or_create", "update_or_create"}
    /\ last.err = ErrMultiple
    /\ Cardinality(txn) > 1 /\ Len(heap) = Cardinality(txn)

\* C8: get for a primary key no created record has or can be given returns
\* None without raising; get and get_by answer a lookup that matches no row
\* with None, never with an error.
C8_NotFoundIsAbsent ==
    /\ \A pk \in (0..(MaxPk + 2)) \cup GivenPks :
          LET r == get(Fresh, pk)
          IN /\ (pk = 0 \/ (pk >= nextPk + Len(new) /\ pk \notin GivenPks))
                    => (Ok(r) /\ r.res = 0)
             /\ (\A row \in r.txn : row.id # pk) => (Ok(r) /\ r.res = 0)
             /\ Ok(r)
    /\ \A kw \in Kwargs :
          LET r == get_by(Fresh, kw)
          IN MatchingRows(r.txn, kw) = {} => (Ok(r) /\ r.res = 0)

\* get has just returned None from a store that holds rows.
C8_Witness ==
    /\ last.op = "get" /\ last.err = ErrNone /\ last.res = 0
    /\ txn # {}

\* C9: create, save, save_all, update, delete and delete_all issue no commit
\* when the flag is false and, when it is true, exactly one, as the last
\* session call, after the add / delete step (a call whose add / delete step
\* raises ends there).
CommitIffFlag(r, c, before) ==
    /\ Count(r.calls, "commit") = IF c /\ Len(r.calls) > before THEN 1 ELSE 0
    /\ c /\ Ok(r) => Len(r.calls) = before + 1
    /\ Len(r.calls) > before => r.calls[Len(r.calls)] = "commit"
    /\ \A i \in 1..Len(r.calls) : i <= before => r.calls[i] # "commit"

C9_CommitIffFlag ==
    \A c \in BOOLEAN :
        /\ \A kw \in FullKwargs : CommitIffFlag(create(Fresh, c, kw), c, 1)
        /\ \A o \in Usable :
              /\ CommitIffFlag(save(Fresh, o, c), c, 1)
              /\ CommitIffFlag(delete(Fresh, o, c), c, 1)
              /\ \A kw \in Kwargs : CommitIffFlag(update(Fresh, o, c, kw), c, 1)
        /\ \A l \in InstanceLists :
              /\ CommitIffFlag(save_all(Fresh, l, c), c, 1)
              /\ CommitIffFlag(delete_all(Fresh, l, c), c, Len(l))

\* A delete asked to commit has just committed, once, after the delete.
C9_Witness ==
    /\ last.op = "delete" /\ last.err = ErrNone
    /\ last.calls = <<"delete", "commit">>

NewUnitOfWork(r) ==
    [Then(r) EXCEPT !.heap = <<>>, !.key = <<>>, !.new = <<>>, !.identity = {},
                    !.deleted = {}, !.txn = r.db, !.autoflush = FALSE]

\* C11: update(instance, commit=True, **fields) assigns every given field to
\* the instance, then adds and commits it: the instance's row is durable, a get
\* by its primary key on the same session returns the instance, and a get on
\* a new session returns a record with all the new field values.
C11_UpdatePersists ==
    \A o \in Usable :
        \A kw \in Kwargs \cup {WithPk(NoKw, pk) : pk \in FreePks} :
            LET r1 == update(Fresh, o, TRUE, kw)
                pk == PkOf(r1, o)
                r2 == get(Then(r1), pk)
                r3 == get(NewUnitOfWork(r1), pk)
            IN /\ Ok(r1) /\ r1.res = o
               /\ r1.calls = <<"add", "commit">>
               /\ \A f \in {"id", "email", "name"} :
                     /\ f \in Keys(kw) => r1.heap[o][f] = kw[f]
                     /\ (f \notin Keys(kw) /\ f # "id") => r1.heap[o][f] = heap[o][f]
               /\ pk # 0 /\ r1.heap[o] \in r1.db
               /\ Ok(r2) /\ r2.res = o
               /\ Ok(r3) /\ r3.res # 0 /\ r3.heap[r3.res] = r1.heap[o]

\* A committing update has just stored the instance it was given.
C11_Witness ==
    /\ last.op = "update" /\ last.err = ErrNone
    /\ last.calls = <<"add", "commit">>
    /\ steps >= 2 /\ heap[last.res] \in db

\* C12: after delete(instance, commit=True) of a persistent instance, get by
\* its primary key returns None, on the same session and on a new one, and no
\* row has that key; the same for every instance given to
\* delete_all(instances, commit=True).
C12_DeletedIsAbsent ==
    /\ \A o \in identity :
          LET r1 == delete(Fresh, o, TRUE)
              r2 == get(Then(r1), key[o])
              r3 == get(NewUnitOfWork(r1), key[o])
          IN /\ Ok(r1) /\ Ok(r2) /\ r2.res = 0
             /\ Ok(r3) /\ r3.res = 0
             /\ \A row \in r1.db : row.id # key[o]
    /\ \A l \in {x \in InstanceLists : RangeOf(x) \subseteq identity} :
          LET r1 == delete_all(Fresh, l, TRUE)
          IN /\ Ok(r1)
             /\ \A o \in RangeOf(l) :
                   /\ get(Then(r1), key[o]).res = 0
                   /\ get(NewUnitOfWork(r1), key[o]).res = 0
                   /\ \A row \in r1.db : row.id # key[o]

\* A get has just returned None where the one stored instance was deleted.
C12_Witness ==
    /\ last.op = "get" /\ last.err = ErrNone /\ last.res = 0
    /\ steps = 3 /\ Len(heap) = 1 /\ heap[1].id # 0
    /\ identity = {} /\ db = {} /\ nextPk = 2

\* C13: save(A), save(B) with commit=False and then commit(): nothing is
\* durable before the commit, and after it both A and B have a primary key of
\* their own, a row in the store, and are returned by get on the same session
\* and found by get on a new one.
C13_DeferredCommitCoversAll ==
    \A ka \in FullKwargs, kb \in FullKwargs :
        LET a == Len(heap) + 1
            b == Len(heap) + 2
            r1 == save(Construct(Construct(Fresh, ka), kb), a, FALSE)
            r2 == save(Then(r1), b, FALSE)
            r3 == commit(Then(r2))
        IN /\ Ok(r1) /\ Ok(r2) /\ Ok(r3)
           /\ r2.db = db
           /\ PkOf(r3, a) # 0 /\ PkOf(r3, b) # 0 /\ PkOf(r3, a) # PkOf(r3, b)
           /\ Fields(r3.heap[a]) = ka /\ Fields(r3.heap[b]) = kb
           /\ r3.heap[a] \in r3.db /\ r3.heap[b] \in r3.db
           /\ get(Then(r3), PkOf(r3, a)).res = a
           /\ get(Then(r3), PkOf(r3, b)).res = b
           /\ \A o \in {a, b} :
                 LET g == get(NewUnitOfWork(r3), PkOf(r3, o))
                 IN Ok(g) /\ g.res # 0 /\ g.heap[g.res] = r3.heap[o]

\* A commit has just stored two instances that were pending.
C13_Witness ==
    /\ last.op = "commit" /\ last.err = ErrNone
    /\ steps = 3 /\ Len(heap) = 2 /\ identity = {1, 2}
    /\ heap[1] \in db /\ heap[2] \in db

C15_AutoflushRestored ==
    /\ [](\A f \in Faults, kw \in Kwargs :
            LET inside == no_autoflush_enter(Begin(f[1], f[2]))
            IN /\ ~inside.autoflush
               /\ \A r \in {maybe_get_by(Begin(f[1], f[2]), kw),
                            no_autoflush_exit(get_by(inside, kw), autoflush),
                            no_autoflush_exit(all(inside), autoflush)} :
                     /\ r.autoflush = autoflush
                     /\ r.new = new /\ r.txn = txn
               /\ \A k \in FullKwargs :
                     no_autoflush_exit(create(inside, TRUE, k), autoflush).autoflush
                        = autoflush)
    /\ [][last'.op # "reopen" => autoflush' = autoflush]_vars

\* A lookup under the context has just raised on a session whose autoflush is
\* on and that holds a pending instance.
C15_Witness ==
    /\ last.op \in {"get_or_create", "update_or_create"}
    /\ last.fault[1] = 1 /\ last.err \in {ErrStatement, ErrTimeout}
    /\ autoflush /\ new # <<>>

C17_PkImmutable ==
    [][\A o \in 1..Len(heap) :
          (heap[o].id # 0 /\ o <= Len(heap')) => heap'[o].id = heap[o].id]_vars

\* C18 as stated: a manager class with neither a Base subclass declared as its
\* model nor one given as its generic parameter is not defined (the class
\* statement raises), so no defined class is left without its entity type to
\* fail at its first query.
C18_UnboundFailsAtDefinition ==
    /\ cls.defined => cls.model \in BaseModels
    /\ used \in {"-", "ok"}

\* C19: a request or command that has finished, by return or by failure, has
\* no open session; every open session belongs to one request or command
\* still in progress, and no two share one.
C19_SessionsScoped ==
    /\ \A r \in Requests :
          /\ reqs[r].phase = "done" => reqs[r].session \notin open
          /\ (NeedsSession(reqs[r].work) /\ reqs[r].phase \in {"deps", "ready", "exiting"})
                => reqs[r].session \in open
    /\ \A s \in open :
          \E r \in Requests : /\ reqs[r].session = s
                              /\ reqs[r].phase \in {"deps", "ready", "exiting"}
    /\ \A r1 \in Requests, r2 \in Requests :
          (r1 # r2 /\ reqs[r1].session # 0) => reqs[r1].session # reqs[r2].session

\* A handler that had a session has failed and the session is closed.
C19_Witness ==
    \E r \in Requests :
        /\ reqs[r].phase = "done" /\ reqs[r].status = 500
        /\ reqs[r].session # 0 /\ reqs[r].session \notin open

\* C20: a request to a route under require_user that carries no valid bearer
\* token never has its handler invoked, and is answered 401.
C20_NoTokenIs401 ==
    \A r \in Requests :
        (RequiresUser(reqs[r].work) /\ reqs[r].phase # "idle"
            /\ reqs[r].cred.token # "valid") =>
                /\ ~reqs[r].invoked
                /\ reqs[r].phase \in {"exiting", "done"} => reqs[r].status = 401

\* The protected route has answered a request without a token.
C20_Witness ==
    \E r \in Requests :
        /\ reqs[r].work = "/api/v1/protected" /\ reqs[r].cred.token = "none"
        /\ reqs[r].phase = "done" /\ reqs[r].status = 401 /\ ~reqs[r].invoked

\* ------------------------------------------------------------------ C21
\* C21: on the route declared with require_user(is_superuser=True) a request
\* authenticated as an active, verified user who is not a superuser never has
\* get_users invoked, gets no listing, and is answered 403 -- whoever else is
\* being served, a superuser included.
C21_NonSuperuserForbidden ==
    \A r \in Requests :
        LET q == reqs[r] IN
        (/\ q.work = "/api/v1/users" /\ q.phase # "idle"
         /\ q.cred.token = "valid" /\ q.cred.is_active /\ q.cred.is_verified
         /\ ~q.cred.is_superuser) =>
            /\ ~q.invoked
            /\ q.body = {} /\ q.passed = NoKwargs
            /\ q.phase \in {"exiting", "done"} => q.status = 403

\* A plain user has been refused the listing that a superuser has been given,
\* with a user in the store.
C21_Witness ==
    \E r1 \in Requests, r2 \in Requests :
        /\ reqs[r1].work = "/api/v1/users" /\ reqs[r1].phase = "done"
        /\ reqs[r1].cred = [token |-> "valid", is_active |-> TRUE,
                            is_verified |-> TRUE, is_superuser |-> FALSE]
        /\ reqs[r1].status = 403 /\ ~reqs[r1].invoked
        /\ reqs[r2].work = "/api/v1/users" /\ reqs[r2].cred.is_superuser
        /\ reqs[r2].status = 200 /\ reqs[r2].body # {}

\* ------------------------------------------------------------------ C22
\* handler signatures: none, one or two parameters, sync or async
UserParam(n) == [name |-> n, annotation |-> "User"]
SessionParam == [name |-> "session", annotation |-> "AsyncSession"]
Signatures ==
    [is_async : BOOLEAN,
     params : {<<UserParam("user")>>, <<SessionParam>>,
               <<SessionParam, UserParam("user")>>,
               <<UserParam("me"), SessionParam>>,
               <<UserParam("user"), UserParam("me")>>}]
UserParams(f) == {i \in 1..Len(f.params) : f.params[i].annotation = "User"}

C23_ListsCommittedUsers ==
    /\ \A r \in Requests :
          (reqs[r].work = "/api/v1/users" /\ reqs[r].invoked /\ reqs[r].status = 200) =>
              /\ reqs[r].cred.is_superuser
              /\ reqs[r].body = {u \in db : u.id <= reqs[r].at}
              /\ Cardinality(reqs[r].body) = reqs[r].at
    /\ \A r1 \in Requests, r2 \in Requests :
          (/\ reqs[r1].work = "/api/v1/users" /\ reqs[r1].status = 200
           /\ reqs[r2].work = "/api/v1/users" /\ reqs[r2].status = 200
           /\ reqs[r2].at = reqs[r1].at + 1) =>
              /\ reqs[r1].body \subseteq reqs[r2].body
              /\ Cardinality(reqs[r2].body \ reqs[r1].body) = 1
              /\ \A u \in reqs[r2].body \ reqs[r1].body : u.id = reqs[r2].at

\* Two listings, a user committed between them, and a third user still pending.
C23_Witness ==
    \E r1 \in Requests, r2 \in Requests :
        /\ reqs[r1].work = "/api/v1/users" /\ reqs[r1].status = 200
        /\ reqs[r2].work = "/api/v1/users" /\ reqs[r2].status = 200
        /\ Cardinality(reqs[r1].body) = 1 /\ Cardinality(reqs[r2].body) = 2
        /\ reqs[r1].body \subseteq reqs[r2].body

\* ------------------------------------------------------------------ C24
\* the number of session calls a manager call has issued
Issued(r) == Len(r.calls)
\* one call, then one commit when asked to and the call went through
OneThenCommit(r, c) ==
    /\ Issued(r) \in {1, 2} /\ r.calls[1] # "commit"
    /\ ~c => Issued(r) = 1
    /\ (c /\ Ok(r)) => Issued(r) = 2
    /\ Issued(r) = 2 => r.calls[2] = "commit"

\* C24 as stated: no manager call issues more than two session calls.
C24_AtMostTwo ==
    Issued(last) <= 2

\* C24 amended: all, get, get_by and commit issue one session call; create,
\* save, update, delete and save_all issue one, and a commit after it when
\* asked to; get_or_create and update_or_create issue one lookup and, when
\* nothing matches, one add and a commit when asked to -- three at most;
\* delete_all issues one delete per instance and a commit when asked to.
C24_CallsIssued ==
    /\ Issued(all(Fresh)) = 1 /\ Issued(commit(Fresh)) = 1
    /\ \A pk \in 0..MaxPk : Issued(get(Fresh, pk)) = 1
    /\ \A kw \in Kwargs : Issued(get_by(Fresh, kw)) = 1
    /\ \A c \in BOOLEAN :
        /\ \A kw \in FullKwargs : OneThenCommit(create(Fresh, c, kw), c)
        /\ \A o \in Usable :
              /\ OneThenCommit(save(Fresh, o, c), c)
              /\ OneThenCommit(delete(Fresh, o, c), c)
              /\ \A kw \in Kwargs : OneThenCommit(update(Fresh, o, c, kw), c)
        /\ \A l \in InstanceLists :
              /\ OneThenCommit(save_all(Fresh, l, c), c)
              /\ Issued(delete_all(Fresh, l, c)) <= Len(l) + 1
              /\ Ok(delete_all(Fresh, l, c)) =>
                    Issued(delete_all(Fresh, l, c)) = Len(l) + IF c THEN 1 ELSE 0
        /\ \A kw \in Kwargs : \A d \in Defaults(kw) :
              LET g == get_or_create(Fresh, d, c, kw)
                  u == update_or_create(Fresh, d, c, kw)
                  found == MatchingRows(txn, kw) # {}
              IN /\ Issued(g) <= 3 /\ Issued(u) <= 3
                 /\ g.calls[1] = "execute" /\ u.calls[1] = "execute"
                 /\ found => Issued(g) = 1 /\ Issued(u) = 1
                 /\ (Ok(g) /\ g.created) => g.calls = <<"execute", "add">> \o
                                              IF c THEN <<"commit">> ELSE <<>>
                 /\ (Ok(u) /\ u.created) => u.calls = <<"execute", "add">> \o
                                              IF c THEN <<"commit">> ELSE <<>>

\* get_or_create found nothing and created with commit=True: three calls.
C24_Witness ==
    /\ last.op = "get_or_create" /\ last.err = ErrNone /\ last.created
    /\ last.calls = <<"execute", "add", "commit">>

\* ------------------------------------------------------------------ C25
\* After the call that returned r, everything the session held before it --
\* apart from the instances in except, which the call itself acted on -- is in
\* the store: pending adds as rows, loaded instances with the values they have
\* now, and instances marked for deletion as no row.
AllDurable(r, except) ==
    Ok(r) =>
        /\ r.new = <<>> /\ r.deleted = {} /\ r.db = r.txn
        /\ \A p \in RangeOf(new) \ except :
              p \in r.identity /\ r.heap[p].id # 0 /\ r.heap[p] \in r.db
        /\ \A p \in (identity \ deleted) \ except :
              p \in r.identity /\ r.heap[p] = heap[p] /\ r.heap[p] \in r.db
        /\ \A p \in deleted \ except :
              p \notin r.identity /\ heap[p] \notin r.db

\* C25: create, save, update and delete with commit=True commit the session:
\* whatever was added, changed or deleted before through the same session with
\* commit=False is durable once the call returns.
C25_CommitIsSessionWide ==
    /\ \A kw \in FullKwargs : AllDurable(create(Fresh, TRUE, kw), {})
    /\ \A o \in Usable :
          /\ AllDurable(save(Fresh, o, TRUE), {o})
          /\ AllDurable(delete(Fresh, o, TRUE), {o})
          /\ \A kw \in Kwargs : AllDurable(update(Fresh, o, TRUE, kw), {o})

\* A create with commit=True has just made durable the deletion of an instance
\* that was loaded before.
C25_Witness ==
    /\ last.op = "create" /\ last.err = ErrNone
    /\ last.calls = <<"add", "commit">>
    /\ \E o \in 1..Len(heap) :
          /\ heap[o].id # 0 /\ o \notin identity
          /\ \A row \in db : row.id # heap[o].id
    /\ new = <<>> /\ deleted = {} /\ db # {}

\* ------------------------------------------------------------------ C28
\* defaults of every shape, with and without a key named commit
AnyDefaults == Kwargs \cup {WithCommit(d, c) : d \in Kwargs, c \in BOOLEAN}
Clashes(d, kw) == Keys(d) \cap Keys(kw) # {} \/ "commit" \in DOMAIN d
\* the call raised TypeError after its lookup and left the session and the
\* store as they were
RaisedBeforeCreate(r) ==
    /\ r.err = ErrType /\ r.calls = <<"execute">>
    /\ r.heap = heap /\ r.new = new /\ r.identity = identity
    /\ r.deleted = deleted /\ r.txn = txn /\ r.db = db /\ r.nextPk = nextPk

\* C28: get_or_create and update_or_create, where the lookup finds nothing and
\* defaults repeats a filter key or has a key named commit, raise TypeError at
\* the call of create: no instance is built, nothing is added or committed, and
\* the store and the pending set are as before.
C28_ClashRaisesBeforeCreate ==
    \A kw \in Kwargs, d \in AnyDefaults, c \in BOOLEAN :
        LET g == maybe_get_by(Fresh, kw)
        IN (Ok(g) /\ g.res = 0 /\ Clashes(d, kw)) =>
              /\ RaisedBeforeCreate(get_or_create(Fresh, d, c, kw))
              /\ RaisedBeforeCreate(update_or_create(Fresh, d, c, kw))

\* get_or_create has just raised TypeError after its lookup, nothing stored.
C28_Witness ==
    /\ last.op = "get_or_create" /\ last.err = ErrType
    /\ last.calls = <<"execute">> /\ last.fault = <<0, ErrNone>>
    /\ heap = <<>> /\ db = {}

\* ------------------------------------------------------------------ C26
\* the get_or_create calls that have returned for this filter
Returned(kw) == {p \in RaceTasks : tasks[p].pc = "done" /\ tasks[p].kw = kw}

\* C26 as stated: when two sessions have each run get_or_create(commit=True)
\* with the same filter on a store that had no matching row, one row matches
\* and at most one call has returned created=True.
C26_OneRowOneCreator ==
    \A kw \in FullKwargs :
        (/\ Returned(kw) = RaceTasks
         /\ \A p \in RaceTasks : tasks[p].commit) =>
            /\ Cardinality(MatchingRows(db, kw)) = 1
            /\ Cardinality({p \in RaceTasks : tasks[p].created}) <= 1

\* C26 amended: a call creates exactly when its own lookup found no committed
\* row, whatever the other session is doing; the store holds one matching row
\* per call that created with commit=True.  With a lookup that follows the
\* other call's commit that is one row and one creator; with both lookups
\* before either commit it is two rows and two creators.
C26_RowPerCreator ==
    /\ \A p \in RaceTasks :
          /\ tasks[p].pc # "idle" => (tasks[p].found <=> tasks[p].seen > 0)
          /\ tasks[p].pc = "looked" => ~tasks[p].found
          /\ tasks[p].pc = "done" => (tasks[p].created <=> ~tasks[p].found)
    /\ \A kw \in FullKwargs :
          Cardinality(MatchingRows(db, kw)) =
              Cardinality({p \in Returned(kw) : tasks[p].created /\ tasks[p].commit})

\* Both sessions looked before either committed: two rows, two creators.
C26_Witness ==
    \E kw \in FullKwargs :
        /\ Returned(kw) = RaceTasks
        /\ \A p \in RaceTasks : tasks[p].commit /\ tasks[p].created /\ tasks[p].seen = 0
        /\ Cardinality(MatchingRows(db, kw)) = 2

\* ------------------------------------------------------------------ C27
\* C27 as stated: while any no_autoflush scope is open on the session its
\* autoflush is off, and once all are closed it is what it was before the
\* first was entered -- in whatever order the scopes were entered and left.
C27_OffWhileOpenThenRestored ==
    /\ scopes # <<>> => ~autoflush
    /\ scopes = <<>> => autoflush = orig

\* C27 amended: that holds as long as the scopes are left innermost first
\* (nested scopes, the internal scopes of get_or_create / update_or_create
\* included).  A scope left while a scope entered after it is still open puts
\* back the setting it saved with the later scope still open, and the later
\* scope then puts back "off" for good.
C27_NestedOffThenRestored ==
    nested =>
        /\ scopes # <<>> => ~autoflush
        /\ scopes = <<>> => autoflush = orig

\* Three scopes were nested on a session with autoflush on, the two inner
\* ones are closed again, and the outer one is still open.
C27_Witness ==
    /\ nested /\ orig /\ ~autoflush
    /\ Len(scopes) = 1 /\ scopes[1].autoflush

\* ------------------------------------------------------------------ C29
\* the message as send_email hands it on
Addressed(subject, request) ==
    [subject |-> subject,
     base_url |-> IF request = NoRequest THEN BASE_URL ELSE Rstrip(request)]

\* C29: send_email with send_emails false leaves the queue, the mailer and the
\* message as they were; with send_emails true and a background queue it adds
\* the message to the queue once and hands nothing to the mailer; with
\* send_emails true and no queue it hands the message to the mailer and has
\* awaited that before it returns.  A message handed on has no trailing "/" in
\* its base_url.
C29_EmailDispatch ==
    \A subject \in Subjects, request \in BaseUrls \cup {NoRequest},
       background_tasks \in BOOLEAN :
        LET m == Email(subject)
            off == send_email(Mailing(m), FALSE, background_tasks, request)
            on == send_email(Mailing(m), TRUE, background_tasks, request)
            sent == Addressed(subject, request)
        IN /\ off.queue = queue /\ off.outbox = outbox
           /\ off.message = m /\ ~off.awaited
           /\ on.message = sent
           /\ sent.base_url # <<>> /\ sent.base_url[Len(sent.base_url)] # "/"
           /\ background_tasks =>
                 /\ on.queue = Append(queue, sent)
                 /\ on.outbox = outbox /\ ~on.awaited
           /\ ~background_tasks =>
                 /\ on.outbox = Append(outbox, sent)
                 /\ on.queue = queue /\ on.awaited

\* A message was queued, and the last call, made with send_emails false, has
\* left it alone in the queue and handed nothing to the mailer.
C29_Witness ==
    /\ ~mailLast.send_emails /\ mailLast.message.base_url = <<>>
    /\ Len(queue) = 1 /\ queue[1].base_url = <<"http://testserver">>
    /\ outbox = <<>>

\* ------------------------------------------------------------------ C30
Admitted(cred, require_verified) ==
    /\ cred.known /\ cred.is_active /\ cred.is_superuser
    /\ require_verified => cred.is_verified

\* C30: login returns True exactly for credentials that authenticate an
\* active superuser who, when verification is required, is verified; it then
\* has written one new token of that user and put it in the admin session.
\* Otherwise it returns False for unknown credentials, fails with 403 for an
\* inactive user or a non-superuser and with 400 for an unverified one, and
\* leaves the token store and the admin session as they were.
C30_LoginWritesTokenOnlyForAdmins ==
    /\ \A cred \in Logins, require_verified \in BOOLEAN :
          LET r == login(Admin, cred, require_verified)
          IN /\ r.result = "True" <=> Admitted(cred, require_verified)
             /\ r.result = "True" =>
                   /\ r.session # adminSession
                   /\ r.tokens \ tokens = {[token |-> r.session, user |-> cred.user]}
                   /\ tokens \subseteq r.tokens
             /\ r.result # "True" =>
                   /\ r.tokens = tokens /\ r.session = adminSession
                   /\ r.result = IF ~cred.known THEN "False"
                                 ELSE IF ~(cred.is_active /\ cred.is_superuser) THEN "403"
                                 ELSE "400"
    /\ adminSession # NoToken => \E t \in tokens : t.token = adminSession

\* After an admin logged in, a login of an unverified superuser has failed
\* with 400 and the session still holds the one token there is.
C30_Witness ==
    /\ loginLast.result = "400" /\ loginLast.cred.is_superuser
    /\ Cardinality(tokens) = 1 /\ adminSession = 1

=============================================================================
